---- MODULE Spec2Model ----
(***************************************************************************)
(* Block_searcher_CW: timestamp <-> block/slot resolution.                 *)
(*                                                                         *)
(* The model follows src/src/utils/block-fetcher.ts and                    *)
(* src/src/routes/api.ts.  Every await of the source is a step boundary:   *)
(* the retry loop, the cached point lookup, the binary search, the Solana  *)
(* refiner and the request handler are separate frames that call into each *)
(* other and hand back a value or a thrown error.                          *)
(***************************************************************************)
EXTENDS Integers, Sequences, FiniteSets, TLC

VARIABLES
    chainLatest,          \* remote: latest index of each chain, Null = endpoint unreachable
    chainTime,            \* remote: timestamp of each index of each chain, Null = no record
    blockTimestampCache,  \* block-fetcher.ts:12
    slotTimeCache,        \* block-fetcher.ts:11
    cache,                \* api.ts:9, per chain: timestamp string -> index
    rf,                   \* frame of retry()
    mock,                 \* the mocked operation of the retry tests
    sf,                   \* frame of the resolver function in progress
    req,                  \* frame of handleApiRoute
    parked,               \* frame of a second retry() whose promise is pending
    hist                  \* observations: remote calls, probes, delays

vars == <<chainLatest, chainTime, blockTimestampCache, slotTimeCache, cache,
          rf, mock, sf, req, parked, hist>>

(***************************************************************************)
(* Bounds of the model.                                                    *)
(***************************************************************************)
MaxLatest == 3      \* latest block of the EVM chain is in 0..MaxLatest
MaxSlot == 2        \* latest slot of the Solana chain is in 0..MaxSlot
MaxTick == 3        \* timestamps are TimeStep * (1..MaxTick)
MaxFails == 3       \* the mocked operation fails 0..MaxFails times, then succeeds
MaxRetries == 4     \* the retry tests pass retries in 0..MaxRetries

(***************************************************************************)
(* Program constants.                                                      *)
(***************************************************************************)
MAX_SEARCH_OFFSET == 100
TIME_DIFFERENCE_THRESHOLD == 60
\* Number.MAX_SAFE_INTEGER is 2^53 - 1; TLC's integers are 32 bits wide, so
\* the largest of those stands for it.  Every modelled difference is far below.
MAX_SAFE_INTEGER == 2147483647
DefaultRetries == 3
DefaultDelayMs == 1000

Chains == {"evm", "solana"}
Null == -1          \* a remote answer of null (no block record, skipped slot)
TimeStep == 25      \* seconds between two modelled timestamp values

Abs(x) == IF x < 0 THEN -x ELSE x

(***************************************************************************)
(* Errors.  String(error) of the source is the record itself; the error    *)
(* thrown by retry carries the description of the error it wraps.          *)
(***************************************************************************)
NoError == [kind |-> "none", cause |-> "", a |-> 0, b |-> 0]
MockError(j) == [kind |-> "Mock", cause |-> "", a |-> j, b |-> 0]
NetworkError == [kind |-> "Network", cause |-> "", a |-> 0, b |-> 0]
NoDataError(blockNumber) == [kind |-> "NoData", cause |-> "", a |-> blockNumber, b |-> 0]
NoTimestampError(slot) == [kind |-> "NoTimestamp", cause |-> "", a |-> slot, b |-> 0]
OutOfRangeError(slot, latestSlot) ==
    [kind |-> "OutOfRange", cause |-> "", a |-> slot, b |-> latestSlot]
MaxRetriesLostCause(error) == [kind |-> "MaxRetries", cause |-> "", a |-> 0, b |-> 0]
MaxRetriesReached(error) ==
    [kind |-> "MaxRetries", cause |-> error.kind, a |-> error.a, b |-> error.b]
MaxRetriesWithoutSuccess == [kind |-> "MaxRetriesWithoutSuccess", cause |-> "", a |-> 0, b |-> 0]

(***************************************************************************)
(* retry(fn, retries, delayMs)                                             *)
(***************************************************************************)
IdleRetry ==
    [pc |-> "idle", fn |-> "none", attempt |-> 0, retries |-> 0, delayMs |-> 0,
     chain |-> "evm", key |-> 0, value |-> 0, error |-> NoError, fetches |-> 0]

\* retry() entered: `for (let attempt = 0; ...`
EnterRetry(fn, retries, delayMs, chain, key) ==
    [pc |-> "loop", fn |-> fn, attempt |-> 0, retries |-> retries, delayMs |-> delayMs,
     chain |-> chain, key |-> key, value |-> 0, error |-> NoError, fetches |-> 0]

LoopCondOffByOne(attempt, retries) == attempt <= retries
LoopCond(attempt, retries) == attempt < retries

LastAttemptLate(attempt, retries) == attempt >= retries
\* `if (attempt >= retries - 1)`
LastAttempt(attempt, retries) == attempt >= retries - 1

\* `return await fn()` when fn resolved
Returned(value) == [rf EXCEPT !.pc = "returned", !.value = value]

\* the catch block, entered with the error fn rejected with
Caught(error) ==
    IF LastAttempt(rf.attempt, rf.retries)
    THEN [rf EXCEPT !.pc = "threw", !.error = MaxRetriesReached(error)]
    ELSE [rf EXCEPT !.pc = "delay", !.error = error]

\* one call of the mocked operation: it rejects its first mock.fails calls
\* (each with its own error) and resolves afterwards
RetryMockAttempt ==
    /\ rf.pc = "loop" /\ rf.fn = "mock"
    /\ LoopCond(rf.attempt, rf.retries)
    /\ mock' = [mock EXCEPT !.calls = @ + 1]
    /\ rf' = IF mock.calls < mock.fails
             THEN Caught(MockError(mock.calls + 1))
             ELSE Returned(mock.value)
    /\ UNCHANGED <<parked, chainLatest, chainTime, blockTimestampCache, slotTimeCache, cache,
                   sf, req, hist>>

\* `await delay(delayMs)` is over: attempt++
RetryDelayDone ==
    /\ rf.pc = "delay"
    /\ rf' = [rf EXCEPT !.pc = "loop", !.attempt = @ + 1]
    /\ hist' = [hist EXCEPT !.delays = @ + 1, !.elapsed = @ + rf.delayMs]
    /\ UNCHANGED <<parked, chainLatest, chainTime, blockTimestampCache, slotTimeCache, cache,
                   mock, sf, req>>

\* the loop ends without an attempt left: line 34
RetryFallThrough ==
    /\ rf.pc = "loop"
    /\ ~LoopCond(rf.attempt, rf.retries)
    /\ rf' = [rf EXCEPT !.pc = "threw", !.error = MaxRetriesWithoutSuccess]
    /\ UNCHANGED <<parked, chainLatest, chainTime, blockTimestampCache, slotTimeCache, cache,
                   mock, sf, req, hist>>

(***************************************************************************)
(* getCachedData(cache, key, fetchFunc): the operation handed to retry     *)
(***************************************************************************)
Keys == -1 .. MaxLatest + 1

PointCache(chain) == IF chain = "evm" THEN blockTimestampCache ELSE slotTimeCache

\* what the remote point source holds for an index: a timestamp, or Null
RemoteTime(chain, key) ==
    IF key \in DOMAIN chainTime[chain] THEN chainTime[chain][key] ELSE Null

\* getBlockTimestamp line 78-79 / getSlotTime line 170-171
NotFound(chain, key) ==
    IF chain = "evm" THEN NoDataError(key) ELSE NoTimestampError(key)

\* getCachedData(...) = retry(closure) with the default retries and delay
EnterGetCachedData(chain, key) ==
    EnterRetry("cached", DefaultRetries, DefaultDelayMs, chain, key)

\* the remote requests observed per chain and key, for the keys of Keys
Counted(counts, chain, key) ==
    IF key \in DOMAIN counts[chain]
    THEN [counts EXCEPT ![chain][key] = @ + 1]
    ELSE counts

CacheAnswersFirstAttempt(frame, pointCache) ==
    frame.attempt = 0 /\ frame.key \in DOMAIN pointCache
\* `if (key in cache)`: evaluated by every attempt, the closure being what retry repeats
CacheAnswers(frame, pointCache) == frame.key \in DOMAIN pointCache

\* one attempt of the closure up to its await: `if (key in cache) return cache[key]`,
\* else fetchFunc() is called and the remote request is in flight
CachedAttempt ==
    /\ rf.pc = "loop" /\ rf.fn = "cached"
    /\ LoopCond(rf.attempt, rf.retries)
    /\ IF CacheAnswers(rf, PointCache(rf.chain))
       THEN /\ rf' = Returned(PointCache(rf.chain)[rf.key])
            /\ hist' = hist
       ELSE /\ rf' = [rf EXCEPT !.pc = "fetch", !.fetches = @ + 1]
            /\ hist' = [hist EXCEPT !.fetchCalls = Counted(@, rf.chain, rf.key)]
    /\ UNCHANGED <<parked, chainLatest, chainTime, blockTimestampCache, slotTimeCache, cache,
                   mock, sf, req>>

StoreAlone(pointCache, key, data) == (key :> data)
StoreDropped(pointCache, key, data) == pointCache
\* `cache[key] = data`
Store(pointCache, key, data) == (key :> data) @@ pointCache

\* the remote answers with a timestamp: it is stored and returned
FetchResolves ==
    /\ rf.pc = "fetch"
    /\ RemoteTime(rf.chain, rf.key) # Null
    /\ LET data == RemoteTime(rf.chain, rf.key) IN
         /\ blockTimestampCache' =
               IF rf.chain = "evm" THEN Store(blockTimestampCache, rf.key, data)
               ELSE blockTimestampCache
         /\ slotTimeCache' =
               IF rf.chain = "solana" THEN Store(slotTimeCache, rf.key, data)
               ELSE slotTimeCache
         /\ rf' = Returned(data)
    /\ hist' = [hist EXCEPT !.fetched = Counted(@, rf.chain, rf.key), !.run = 0]
    /\ UNCHANGED <<parked, chainLatest, chainTime, cache, mock, sf, req>>

\* the remote answers that it has no record for the index: fetchFunc throws, the
\* catch block runs
FetchNotFound ==
    /\ rf.pc = "fetch"
    /\ chainLatest[rf.chain] # Null
    /\ RemoteTime(rf.chain, rf.key) = Null
    /\ rf' = Caught(NotFound(rf.chain, rf.key))
    /\ hist' = [hist EXCEPT !.run = @ + 1,
                            !.worstRun = IF hist.run + 1 > @ THEN hist.run + 1 ELSE @]
    /\ UNCHANGED <<parked, chainLatest, chainTime, blockTimestampCache, slotTimeCache, cache,
                   mock, sf, req>>

\* the request fails in transit (network, parse): fetchFunc throws
FetchFails ==
    /\ rf.pc = "fetch"
    /\ rf' = Caught(NetworkError)
    /\ hist' = [hist EXCEPT !.run = @ + 1,
                            !.worstRun = IF hist.run + 1 > @ THEN hist.run + 1 ELSE @]
    /\ UNCHANGED <<parked, chainLatest, chainTime, blockTimestampCache, slotTimeCache, cache,
                   mock, sf, req>>

(***************************************************************************)
(* Initial values shared by the specifications.                            *)
(***************************************************************************)
ZeroCounts == [c \in Chains |-> [k \in Keys |-> 0]]

FreshHist ==
    [delays |-> 0, elapsed |-> 0, probes |-> <<>>, run |-> 0, worstRun |-> 0,
     fetchCalls |-> ZeroCounts, fetched |-> ZeroCounts, lookups |-> 0]

IdleMock == [fails |-> 0, calls |-> 0, value |-> 0]
IdleSearch ==
    [pc |-> "idle", fn |-> "none", chain |-> "evm", target |-> 0, latest |-> 0,
     startIndex |-> 0, endIndex |-> 0, middle |-> 0,
     closestIndex |-> 0, closestTimeDifference |-> 0,
     initialSlot |-> 0, offset |-> 0, value |-> 0, error |-> NoError, at |-> "none"]
IdleRequest ==
    [pc |-> "idle", chain |-> "evm", timestamps |-> <<>>, blockNumberParam |-> "",
     i |-> 1, results |-> [k \in {} |-> 0], status |-> 0, body |-> NoError]
EmptyCache == [k \in {} |-> 0]

InitProgram ==
    /\ blockTimestampCache = EmptyCache
    /\ slotTimeCache = EmptyCache
    /\ cache = [c \in Chains |-> EmptyCache]
    /\ rf = IdleRetry
    /\ parked = IdleRetry
    /\ mock = IdleMock
    /\ sf = IdleSearch
    /\ req = IdleRequest
    /\ hist = FreshHist

\* a chain whose remote is never asked
NoChain == [latest |-> 0, time |-> [i \in 0 .. 0 |-> TimeStep]]

(***************************************************************************)
(* The resolvers of block-fetcher.ts.  A resolver frame is suspended at an *)
(* await: "latest" (the latest-index request is in flight) or a point      *)
(* lookup ("genesis", "probe", "seed", "forward", "backward", "lookup")    *)
(* that runs in the retry frame.                                           *)
(***************************************************************************)
EnterResolver(fn, chain, target) ==
    [IdleSearch EXCEPT !.pc = "latest", !.fn = fn, !.chain = chain, !.target = target]

\* the resolver awaits a point lookup of `key`
AwaitLookup(frame, at, key) ==
    /\ sf' = [frame EXCEPT !.pc = at]
    /\ rf' = EnterGetCachedData(frame.chain, key)

ResolverReturns(frame, value) ==
    /\ sf' = [frame EXCEPT !.pc = "returned", !.value = value]
    /\ rf' = IdleRetry

ResolverSwallows(frame, error) == ResolverReturns(frame, frame.closestIndex)
ResolverThrows(frame, error) ==
    /\ sf' = [frame EXCEPT !.pc = "threw", !.error = error, !.at = frame.pc]
    /\ rf' = IdleRetry

Middle(startIndex, endIndex) == (startIndex + endIndex) \div 2

CloserOrEqual(difference, closestTimeDifference) == difference <= closestTimeDifference
\* `if (timeDifference < closestTimeDifference)`
Closer(difference, closestTimeDifference) == difference < closestTimeDifference

TrackLatest(frame, index, time) ==
    [frame EXCEPT !.closestIndex = index,
                  !.closestTimeDifference = Abs(time - frame.target)]
\* lines 113-118 / 192-197 / 226-230 / 233-237: keep the closest index seen
Track(frame, index, time) ==
    LET difference == Abs(time - frame.target) IN
    IF Closer(difference, frame.closestTimeDifference)
    THEN [frame EXCEPT !.closestIndex = index, !.closestTimeDifference = difference]
    ELSE frame

\* lines 105-108 / 184-187
StartSearch(frame, latest) ==
    [frame EXCEPT !.latest = latest, !.startIndex = 0, !.endIndex = latest,
                  !.closestIndex = 0, !.closestTimeDifference = MAX_SAFE_INTEGER]

NarrowReversed(frame, time) ==
    IF time > frame.target
    THEN [frame EXCEPT !.startIndex = frame.middle + 1]
    ELSE [frame EXCEPT !.endIndex = frame.middle - 1]
NarrowSkipping(frame, time) ==
    IF time < frame.target
    THEN [frame EXCEPT !.startIndex = frame.middle + 2]
    ELSE [frame EXCEPT !.endIndex = frame.middle - 2]
\* lines 122-126 / 201-205: the window after a probe that is no exact hit
Narrow(frame, time) ==
    IF time < frame.target
    THEN [frame EXCEPT !.startIndex = frame.middle + 1]
    ELSE [frame EXCEPT !.endIndex = frame.middle - 1]

\* refineSlotSearchSolana entered: its first await is the lookup of initialSlot
EnterRefine(frame) ==
    AwaitLookup([frame EXCEPT !.initialSlot = frame.closestIndex], "seed",
                frame.closestIndex)

\* `while (start <= end)`: the next probe, or the code after the loop
SearchLoop(frame) ==
    IF frame.startIndex <= frame.endIndex
    THEN LET middle == Middle(frame.startIndex, frame.endIndex) IN
         /\ AwaitLookup([frame EXCEPT !.middle = middle], "probe", middle)
         /\ hist' = [hist EXCEPT !.probes = Append(@, middle)]
    ELSE /\ hist' = hist
         /\ IF frame.chain = "evm"
            THEN ResolverReturns(frame, frame.closestIndex)
            ELSE EnterRefine(frame)

\* the remote's latest-index request fails in transit: nothing retries it
LatestFails ==
    /\ sf.pc = "latest"
    /\ ResolverThrows(sf, NetworkError)
    /\ hist' = [hist EXCEPT !.run = @ + 1,
                            !.worstRun = IF hist.run + 1 > @ THEN hist.run + 1 ELSE @]
    /\ UNCHANGED <<parked, chainLatest, chainTime, blockTimestampCache, slotTimeCache, cache,
                   mock, req>>

\* getEVMBlockByTimestamp: getLatestBlockNumber() resolved, lines 104-112
EVMLatestResolves ==
    /\ sf.pc = "latest" /\ sf.fn = "getEVMBlockByTimestamp"
    /\ chainLatest["evm"] # Null
    /\ SearchLoop(StartSearch(sf, chainLatest["evm"]))
    /\ UNCHANGED <<parked, chainLatest, chainTime, blockTimestampCache, slotTimeCache, cache,
                   mock, req>>

\* a probe of the binary search resolved: lines 113-127 / 192-206
SearchProbe ==
    /\ sf.pc = "probe" /\ rf.pc = "returned"
    /\ LET time == rf.value
           tracked == Track(sf, sf.middle, time) IN
         IF time = sf.target
         THEN ResolverReturns(tracked, sf.middle) /\ hist' = hist
         ELSE SearchLoop(Narrow(tracked, time))
    /\ UNCHANGED <<parked, chainLatest, chainTime, blockTimestampCache, slotTimeCache, cache,
                   mock, req>>

\* an awaited point lookup threw: no resolver catches, the error propagates
LookupThrew ==
    /\ sf.pc \in {"genesis", "probe", "seed", "forward", "backward", "lookup"}
    /\ rf.pc = "threw"
    /\ ResolverThrows(sf, rf.error)
    /\ UNCHANGED <<parked, chainLatest, chainTime, blockTimestampCache, slotTimeCache, cache,
                   mock, req, hist>>

\* getTimestampByBlockNumber(blockNumber) = getBlockTimestamp(blockNumber)
EnterTimestampByBlockNumber(blockNumber) ==
    /\ sf' = [IdleSearch EXCEPT !.pc = "lookup", !.fn = "getTimestampByBlockNumber",
                                !.chain = "evm", !.target = blockNumber]
    /\ rf' = EnterGetCachedData("evm", blockNumber)

\* the lookup of getTimestampByBlockNumber / getTimestampBySlot resolved
LookupResolves ==
    /\ sf.pc = "lookup" /\ rf.pc = "returned"
    /\ ResolverReturns(sf, rf.value)
    /\ UNCHANGED <<parked, chainLatest, chainTime, blockTimestampCache, slotTimeCache, cache,
                   mock, req, hist>>

\* getSolanaBlockByTimestamp: getLatestSlot() resolved, lines 179-180
SolanaLatestResolves ==
    /\ sf.pc = "latest" /\ sf.fn = "getSolanaBlockByTimestamp"
    /\ chainLatest["solana"] # Null
    /\ AwaitLookup([sf EXCEPT !.latest = chainLatest["solana"]], "genesis", 0)
    /\ UNCHANGED <<parked, chainLatest, chainTime, blockTimestampCache, slotTimeCache, cache,
                   mock, req, hist>>

BeforeGenesis(timestamp, genesisTimestamp) == timestamp < genesisTimestamp
\* `if (timestamp <= genesisTimestamp)`
AtOrBeforeGenesis(timestamp, genesisTimestamp) == timestamp <= genesisTimestamp

\* getCachedSlotTime(0) resolved: lines 182-191
GenesisResolves ==
    /\ sf.pc = "genesis" /\ rf.pc = "returned"
    /\ IF AtOrBeforeGenesis(sf.target, rf.value)
       THEN ResolverReturns(sf, 0) /\ hist' = hist
       ELSE SearchLoop(StartSearch(sf, sf.latest))
    /\ UNCHANGED <<parked, chainLatest, chainTime, blockTimestampCache, slotTimeCache, cache,
                   mock, req>>

MoreOffsetsOneMore(offset) == offset <= MAX_SEARCH_OFFSET + 1
\* `offset <= MAX_SEARCH_OFFSET`
MoreOffsets(offset) == offset <= MAX_SEARCH_OFFSET

\* `for (let offset = 1; offset <= MAX_SEARCH_OFFSET; ...`: the forward probe of
\* the offset, or the code after the loop
RefineLoopThresholdFirst(frame) ==
    IF frame.closestTimeDifference <= TIME_DIFFERENCE_THRESHOLD
    THEN ResolverReturns(frame, frame.closestIndex)
    ELSE IF MoreOffsets(frame.offset)
    THEN AwaitLookup(frame, "forward", frame.initialSlot + frame.offset)
    ELSE ResolverReturns(frame, frame.closestIndex)
RefineLoop(frame) ==
    IF MoreOffsets(frame.offset)
    THEN AwaitLookup(frame, "forward", frame.initialSlot + frame.offset)
    ELSE ResolverReturns(frame, frame.closestIndex)

SeedDifferenceUnset(time, targetTimestamp) == MAX_SAFE_INTEGER
\* lines 217-219: the seed's own difference is the first best difference
SeedDifference(time, targetTimestamp) == Abs(time - targetTimestamp)

\* refineSlotSearchSolana: the lookup of initialSlot resolved, lines 216-225
RefineSeed ==
    /\ sf.pc = "seed" /\ rf.pc = "returned"
    /\ RefineLoop([sf EXCEPT !.closestIndex = sf.initialSlot,
                             !.closestTimeDifference = SeedDifference(rf.value, sf.target),
                             !.offset = 1])
    /\ UNCHANGED <<parked, chainLatest, chainTime, blockTimestampCache, slotTimeCache, cache,
                   mock, req, hist>>

\* the forward probe resolved: lines 226-232
RefineForward ==
    /\ sf.pc = "forward" /\ rf.pc = "returned"
    /\ AwaitLookup(Track(sf, sf.initialSlot + sf.offset, rf.value), "backward",
                   sf.initialSlot - sf.offset)
    /\ UNCHANGED <<parked, chainLatest, chainTime, blockTimestampCache, slotTimeCache, cache,
                   mock, req, hist>>

\* the backward probe resolved: lines 233-242
RefineBackward ==
    /\ sf.pc = "backward" /\ rf.pc = "returned"
    /\ LET tracked == Track(sf, sf.initialSlot - sf.offset, rf.value) IN
         IF tracked.closestTimeDifference <= TIME_DIFFERENCE_THRESHOLD
         THEN ResolverReturns(tracked, tracked.closestIndex)
         ELSE RefineLoop([tracked EXCEPT !.offset = @ + 1])
    /\ UNCHANGED <<parked, chainLatest, chainTime, blockTimestampCache, slotTimeCache, cache,
                   mock, req, hist>>

OutOfRangeNegativeMissed(slot, latestSlot) == slot > latestSlot
\* `if (slot < 0 || slot > latestSlot)`
OutOfRange(slot, latestSlot) == slot < 0 \/ slot > latestSlot

\* getTimestampBySlot: getLatestSlot() resolved, lines 254-260
SlotLatestResolves ==
    /\ sf.pc = "latest" /\ sf.fn = "getTimestampBySlot"
    /\ chainLatest["solana"] # Null
    /\ LET latestSlot == chainLatest["solana"] IN
         IF OutOfRange(sf.target, latestSlot)
         THEN ResolverThrows([sf EXCEPT !.latest = latestSlot],
                             OutOfRangeError(sf.target, latestSlot))
         ELSE AwaitLookup([sf EXCEPT !.latest = latestSlot], "lookup", sf.target)
    /\ UNCHANGED <<parked, chainLatest, chainTime, blockTimestampCache, slotTimeCache, cache,
                   mock, req, hist>>

(***************************************************************************)
(* Direct callers of the resolvers (the tests of part_000 call them so).   *)
(***************************************************************************)
Ticks == {TimeStep * k : k \in 1 .. MaxTick}
Targets == {TimeStep * k : k \in 0 .. MaxTick + 1}

NonDecreasing(f) == \A i, j \in DOMAIN f : i <= j => f[i] <= f[j]

\* the monotone chains: every index 0..latest has a block, timestamps never decrease
EVMChains ==
    UNION {{[latest |-> n, time |-> f] : f \in {g \in [0 .. n -> Ticks] : NonDecreasing(g)}}
           : n \in 0 .. MaxLatest}

CallGetEVMBlockByTimestamp(timestamp) ==
    /\ sf.pc = "idle" /\ req.pc = "idle"
    /\ sf' = EnterResolver("getEVMBlockByTimestamp", "evm", timestamp)
    /\ hist' = FreshHist
    /\ UNCHANGED <<parked, chainLatest, chainTime, blockTimestampCache, slotTimeCache, cache,
                   rf, mock, req>>

CallGetTimestampByBlockNumber(blockNumber) ==
    /\ sf.pc = "idle" /\ req.pc = "idle"
    /\ EnterTimestampByBlockNumber(blockNumber)
    /\ hist' = FreshHist
    /\ UNCHANGED <<parked, chainLatest, chainTime, blockTimestampCache, slotTimeCache, cache,
                   mock, req>>

\* the caller has awaited the resolver's promise
ResolverSettled ==
    /\ sf.pc \in {"returned", "threw"} /\ req.pc = "idle"
    /\ sf' = IdleSearch
    /\ hist' = FreshHist
    /\ UNCHANGED <<parked, chainLatest, chainTime, blockTimestampCache, slotTimeCache, cache,
                   rf, mock, req>>

\* the Solana chains: slot 0 has a block, a later slot may be skipped (Null), and
\* block times rise along the slots up to a local noise of one TimeStep
NearMonotone(f) ==
    \A i, j \in DOMAIN f : (i < j /\ f[i] # Null /\ f[j] # Null) => f[i] <= f[j] + TimeStep

SolanaChains ==
    UNION {{[latest |-> n, time |-> f] :
               f \in {g \in [0 .. n -> Ticks \cup {Null}] : g[0] # Null /\ NearMonotone(g)}}
           : n \in 0 .. MaxSlot}

CallGetSolanaBlockByTimestamp(timestamp) ==
    /\ sf.pc = "idle" /\ req.pc = "idle"
    /\ sf' = EnterResolver("getSolanaBlockByTimestamp", "solana", timestamp)
    /\ hist' = FreshHist
    /\ UNCHANGED <<parked, chainLatest, chainTime, blockTimestampCache, slotTimeCache, cache,
                   rf, mock, req>>

CallGetTimestampBySlot(slot) ==
    /\ sf.pc = "idle" /\ req.pc = "idle"
    /\ sf' = EnterResolver("getTimestampBySlot", "solana", slot)
    /\ hist' = FreshHist
    /\ UNCHANGED <<parked, chainLatest, chainTime, blockTimestampCache, slotTimeCache, cache,
                   rf, mock, req>>

InitSolana ==
    /\ InitProgram
    /\ \E chain \in SolanaChains :
          /\ chainLatest = [c \in Chains |-> IF c = "solana" THEN chain.latest ELSE NoChain.latest]
          /\ chainTime = [c \in Chains |-> IF c = "solana" THEN chain.time ELSE NoChain.time]

NextSolana ==
    \/ \E timestamp \in Targets : CallGetSolanaBlockByTimestamp(timestamp)
    \/ \E slot \in -1 .. MaxSlot + 1 : CallGetTimestampBySlot(slot)
    \/ LatestFails
    \/ SolanaLatestResolves
    \/ SlotLatestResolves
    \/ GenesisResolves
    \/ SearchProbe
    \/ RefineSeed
    \/ RefineForward
    \/ RefineBackward
    \/ LookupThrew
    \/ LookupResolves
    \/ CachedAttempt
    \/ FetchResolves
    \/ FetchNotFound
    \/ FetchFails
    \/ RetryDelayDone
    \/ ResolverSettled

SpecSolana == InitSolana /\ [][NextSolana]_vars

InitEVM ==
    /\ InitProgram
    /\ \E chain \in EVMChains :
          /\ chainLatest = [c \in Chains |-> IF c = "evm" THEN chain.latest ELSE NoChain.latest]
          /\ chainTime = [c \in Chains |-> IF c = "evm" THEN chain.time ELSE NoChain.time]

NextEVM ==
    \/ \E timestamp \in Targets : CallGetEVMBlockByTimestamp(timestamp)
    \/ \E blockNumber \in Keys : CallGetTimestampByBlockNumber(blockNumber)
    \/ LatestFails
    \/ EVMLatestResolves
    \/ SearchProbe
    \/ LookupThrew
    \/ LookupResolves
    \/ CachedAttempt
    \/ FetchResolves
    \/ FetchNotFound
    \/ FetchFails
    \/ RetryDelayDone
    \/ ResolverSettled

SpecEVM == InitEVM /\ [][NextEVM]_vars

(***************************************************************************)
(* The retry tests of part_000: retry(mockFn, retries, delayMs) with a     *)
(* mockFn that rejects `fails` times and then resolves.                    *)
(***************************************************************************)
DelayValues == {100, DefaultDelayMs}

CallRetry(fails, retries, delayMs) ==
    /\ rf.pc = "idle"
    /\ mock' = [fails |-> fails, calls |-> 0, value |-> 1]
    /\ rf' = EnterRetry("mock", retries, delayMs, "evm", 0)
    /\ hist' = FreshHist
    /\ UNCHANGED <<parked, chainLatest, chainTime, blockTimestampCache, slotTimeCache, cache,
                   sf, req>>

\* the test has awaited retry's promise and made its assertions
RetrySettled ==
    /\ rf.pc \in {"returned", "threw"} /\ rf.fn = "mock"
    /\ rf' = IdleRetry
    /\ mock' = IdleMock
    /\ hist' = FreshHist
    /\ UNCHANGED <<parked, chainLatest, chainTime, blockTimestampCache, slotTimeCache, cache,
                   sf, req>>

InitRetry ==
    /\ InitProgram
    /\ chainLatest = [c \in Chains |-> NoChain.latest]
    /\ chainTime = [c \in Chains |-> NoChain.time]

NextRetry ==
    \/ \E fails \in 0 .. MaxFails, retries \in 0 .. MaxRetries, delayMs \in DelayValues :
          CallRetry(fails, retries, delayMs)
    \/ RetryMockAttempt
    \/ RetryDelayDone
    \/ RetryFallThrough
    \/ RetrySettled

SpecRetry == InitRetry /\ [][NextRetry]_vars

(***************************************************************************)
(* handleApiRoute of routes/api.ts.  Query parameters are strings; the     *)
(* results and the handler's cache are keyed by the trimmed string, the    *)
(* resolvers receive Number(string).                                       *)
(***************************************************************************)
MaxBatch == 2       \* a timestamps parameter lists 1..MaxBatch values

\* decimal spellings of two of the modelled timestamps, one of them spelled in
\* two ways ("25", "025", "50")
TimestampParams == {ToString(TimeStep), "0" \o ToString(TimeStep), ToString(2 * TimeStep)}
BlockNumberParams == {ToString(k) : k \in -1 .. MaxSlot + 1}

\* Number(string) on these spellings
Number(param) ==
    CHOOSE n \in Targets \cup (-1 .. MaxSlot + 1) :
        param \in {ToString(n), "0" \o ToString(n)}

CacheHitPresent(resultCache, chain, timestamp) == timestamp \in DOMAIN resultCache[chain]
\* `cache[chain] && cache[chain][timestamp]`: an entry that is not 0
CacheHit(resultCache, chain, timestamp) ==
    /\ timestamp \in DOMAIN resultCache[chain]
    /\ resultCache[chain][timestamp] # 0

ItemFailureDropped(results, timestamp) == results
\* `results[timestamp] = null` of the catch block, line 36
ItemFailure(results, timestamp) == (timestamp :> Null) @@ results

\* lines 19-21: the items from position i on that the handler's cache answers
RECURSIVE ServeCached(_, _)
ServeCached(r, resultCache) ==
    IF r.i <= Len(r.timestamps) /\ CacheHit(resultCache, r.chain, r.timestamps[r.i])
    THEN ServeCached(
            [r EXCEPT !.i = @ + 1,
                      !.results = (r.timestamps[r.i] :> resultCache[r.chain][r.timestamps[r.i]]) @@ @],
            resultCache)
    ELSE r

\* lines 24-26: the resolver of the chain ("solana", or else EVM)
ResolveTimestamp(chain, timestamp) ==
    IF chain = "solana"
    THEN EnterResolver("getSolanaBlockByTimestamp", "solana", Number(timestamp))
    ELSE EnterResolver("getEVMBlockByTimestamp", "evm", Number(timestamp))

\* the for loop from position r.i on, up to its next await or to the response
BatchLoop(r, resultCache) ==
    LET s == ServeCached(r, resultCache) IN
    /\ rf' = IdleRetry
    /\ hist' = FreshHist
    /\ IF s.i <= Len(s.timestamps)
       THEN /\ req' = [s EXCEPT !.pc = "await"]
            /\ sf' = ResolveTimestamp(s.chain, s.timestamps[s.i])
       ELSE /\ req' = [s EXCEPT !.pc = "responded", !.status = 200]
            /\ sf' = IdleSearch

\* GET /api?timestamps=...&chain=...
HandleTimestamps(chain, timestamps) ==
    /\ req.pc = "idle" /\ sf.pc = "idle"
    /\ BatchLoop([IdleRequest EXCEPT !.pc = "timestamps", !.chain = chain,
                                     !.timestamps = timestamps], cache)
    /\ UNCHANGED <<parked, chainLatest, chainTime, blockTimestampCache, slotTimeCache, cache, mock>>

\* the resolver of an item returned: lines 28-30, then the next items
ItemResolved ==
    /\ req.pc = "await" /\ req.timestamps # <<>> /\ sf.pc = "returned"
    /\ LET timestamp == req.timestamps[req.i]
           stored == [cache EXCEPT ![req.chain] = (timestamp :> sf.value) @@ @] IN
         /\ cache' = stored
         /\ BatchLoop([req EXCEPT !.i = @ + 1,
                                  !.results = (timestamp :> sf.value) @@ @], stored)
    /\ UNCHANGED <<parked, chainLatest, chainTime, blockTimestampCache, slotTimeCache, mock>>

\* the resolver of an item threw: lines 33-37, then the next items
ItemThrew ==
    /\ req.pc = "await" /\ req.timestamps # <<>> /\ sf.pc = "threw"
    /\ BatchLoop([req EXCEPT !.i = @ + 1,
                             !.results = ItemFailure(@, req.timestamps[req.i])], cache)
    /\ UNCHANGED <<parked, chainLatest, chainTime, blockTimestampCache, slotTimeCache, cache, mock>>

\* GET /api?blockNumber=...&chain=...: lines 40-45
HandleBlockNumber(chain, blockNumberParam) ==
    /\ req.pc = "idle" /\ sf.pc = "idle"
    /\ req' = [IdleRequest EXCEPT !.pc = "await", !.chain = chain,
                                  !.blockNumberParam = blockNumberParam]
    /\ hist' = FreshHist
    /\ IF chain = "solana"
       THEN /\ sf' = EnterResolver("getTimestampBySlot", "solana", Number(blockNumberParam))
            /\ rf' = rf
       ELSE EnterTimestampByBlockNumber(Number(blockNumberParam))
    /\ UNCHANGED <<parked, chainLatest, chainTime, blockTimestampCache, slotTimeCache, cache, mock>>

\* lines 47-48 and 58
BlockNumberResolved ==
    /\ req.pc = "await" /\ req.timestamps = <<>> /\ sf.pc = "returned"
    /\ req' = [req EXCEPT !.pc = "responded", !.status = 200,
                          !.results = (req.blockNumberParam :> sf.value) @@ @]
    /\ sf' = IdleSearch
    /\ hist' = FreshHist
    /\ UNCHANGED <<parked, chainLatest, chainTime, blockTimestampCache, slotTimeCache, cache,
                   rf, mock>>

\* lines 49-53: c.text(`Error: ...`, 500)
BlockNumberThrew ==
    /\ req.pc = "await" /\ req.timestamps = <<>> /\ sf.pc = "threw"
    /\ req' = [req EXCEPT !.pc = "responded", !.status = 500, !.body = sf.error]
    /\ sf' = IdleSearch
    /\ hist' = FreshHist
    /\ UNCHANGED <<parked, chainLatest, chainTime, blockTimestampCache, slotTimeCache, cache,
                   rf, mock>>

\* lines 54-56: neither parameter given
HandleNeither ==
    /\ req.pc = "idle" /\ sf.pc = "idle"
    /\ req' = [IdleRequest EXCEPT !.pc = "responded", !.status = 400]
    /\ UNCHANGED <<parked, chainLatest, chainTime, blockTimestampCache, slotTimeCache, cache,
                   rf, mock, sf, hist>>

\* the response is sent; the handler is ready for the next request
RequestDone ==
    /\ req.pc = "responded"
    /\ req' = IdleRequest
    /\ UNCHANGED <<parked, chainLatest, chainTime, blockTimestampCache, slotTimeCache, cache,
                   rf, mock, sf, hist>>

Batches == UNION {[1 .. n -> TimestampParams] : n \in 1 .. MaxBatch}

\* the chains the handler is run against: blocks at TimeStep, 2 TimeStep, ...
\* up to MaxTick TimeStep, on Solana with the times of the last two slots swapped
BlockTime(i) == TimeStep * (IF i + 1 < MaxTick THEN i + 1 ELSE MaxTick)

ApiChainTime(chain) ==
    [i \in 0 .. MaxSlot |->
        IF chain = "solana" /\ MaxSlot >= 2 /\ i = MaxSlot THEN BlockTime(i - 1)
        ELSE IF chain = "solana" /\ MaxSlot >= 2 /\ i = MaxSlot - 1 THEN BlockTime(i + 1)
        ELSE BlockTime(i)]

\* one of the two RPC endpoints is reachable, the other answers no request
InitApi ==
    /\ InitProgram
    /\ \E up \in Chains :
          /\ chainLatest = [c \in Chains |-> IF c = up THEN MaxSlot ELSE Null]
          /\ chainTime = [c \in Chains |-> IF c = up THEN ApiChainTime(c) ELSE EmptyCache]

NextApi ==
    \/ \E chain \in Chains, timestamps \in Batches : HandleTimestamps(chain, timestamps)
    \/ \E chain \in Chains, param \in BlockNumberParams : HandleBlockNumber(chain, param)
    \/ HandleNeither
    \/ ItemResolved
    \/ ItemThrew
    \/ BlockNumberResolved
    \/ BlockNumberThrew
    \/ RequestDone
    \/ LatestFails
    \/ EVMLatestResolves
    \/ SolanaLatestResolves
    \/ SlotLatestResolves
    \/ GenesisResolves
    \/ SearchProbe
    \/ RefineSeed
    \/ RefineForward
    \/ RefineBackward
    \/ LookupThrew
    \/ LookupResolves
    \/ CachedAttempt
    \/ FetchResolves
    \/ FetchNotFound
    \/ FetchFails
    \/ RetryDelayDone

SpecApi == InitApi /\ [][NextApi]_vars

(***************************************************************************)
(* Concurrent lookups.  Requests are served on one event loop: a call of   *)
(* getCachedData runs until it awaits (the remote request, the retry       *)
(* delay) and any other pending call may run then.  rf is the call whose   *)
(* continuation runs next, parked is a second call suspended at its await. *)
(***************************************************************************)
MaxLookups == 2     \* getCachedData is called at most MaxLookups times
MaxKey == 1         \* the remote has blocks 0..MaxKey; lookups ask for 0..MaxKey+1

\* getBlockTimestamp(key) / getCachedSlotTime(key) called while another lookup
\* may be pending
CallGetCachedData(chain, key) ==
    /\ rf.pc = "idle" /\ sf.pc = "idle"
    /\ hist.lookups < MaxLookups
    /\ rf' = EnterGetCachedData(chain, key)
    /\ hist' = [hist EXCEPT !.lookups = @ + 1]
    /\ UNCHANGED <<parked, chainLatest, chainTime, blockTimestampCache, slotTimeCache,
                   cache, mock, sf, req>>

\* the event loop turns to the other pending call
SwitchLookup ==
    /\ sf.pc = "idle"
    /\ rf # parked
    /\ rf' = parked
    /\ parked' = rf
    /\ UNCHANGED <<chainLatest, chainTime, blockTimestampCache, slotTimeCache, cache,
                   mock, sf, req, hist>>

\* the caller of a lookup has awaited its promise
LookupSettled ==
    /\ rf.pc \in {"returned", "threw"} /\ rf.fn = "cached" /\ sf.pc = "idle"
    /\ rf' = IdleRetry
    /\ UNCHANGED <<parked, chainLatest, chainTime, blockTimestampCache, slotTimeCache,
                   cache, mock, sf, req, hist>>

InitConcurrent ==
    /\ InitProgram
    /\ chainLatest = [c \in Chains |-> MaxKey]
    /\ chainTime = [c \in Chains |-> [i \in 0 .. MaxKey |-> BlockTime(i)]]

NextConcurrent ==
    \/ \E chain \in Chains, key \in 0 .. MaxKey + 1 : CallGetCachedData(chain, key)
    \/ SwitchLookup
    \/ CachedAttempt
    \/ FetchResolves
    \/ FetchNotFound
    \/ FetchFails
    \/ RetryDelayDone
    \/ LookupSettled

SpecConcurrent == InitConcurrent /\ [][NextConcurrent]_vars

(***************************************************************************)
(* The refiner over its whole window.  The Solana chain has slots          *)
(* 0..3 * MAX_SEARCH_OFFSET, all with the block time TimeStep except for   *)
(* the slots at offsets 1, 2 and MAX_SEARCH_OFFSET on either side of the   *)
(* middle slot, whose block times are 1, 2 or 3 TimeStep; the target is    *)
(* 5 TimeStep.  The remote answers every request.                          *)
(***************************************************************************)
RefineLatest == 3 * MAX_SEARCH_OFFSET
RefineTarget == 5 * TimeStep
RefineTimes == {TimeStep, 2 * TimeStep, 3 * TimeStep}
MarkOffsets == {1, 2, MAX_SEARCH_OFFSET}
Marks ==
    {Middle(0, RefineLatest) + k : k \in MarkOffsets} \cup
    {Middle(0, RefineLatest) - k : k \in MarkOffsets}

RefineChains ==
    {[i \in 0 .. RefineLatest |-> IF i \in Marks THEN marked[i] ELSE TimeStep] :
        marked \in [Marks -> RefineTimes]}

InitRefine ==
    /\ InitProgram
    /\ \E time \in RefineChains :
          /\ chainLatest = [c \in Chains |-> IF c = "solana" THEN RefineLatest ELSE NoChain.latest]
          /\ chainTime = [c \in Chains |-> IF c = "solana" THEN time ELSE NoChain.time]

NextRefine ==
    \/ CallGetSolanaBlockByTimestamp(RefineTarget)
    \/ SolanaLatestResolves
    \/ GenesisResolves
    \/ SearchProbe
    \/ RefineSeed
    \/ RefineForward
    \/ RefineBackward
    \/ CachedAttempt
    \/ FetchResolves

SpecRefine == InitRefine /\ [][NextRefine]_vars

(***************************************************************************)
(* The two timestamp searches side by side: a behaviour runs against an    *)
(* EVM chain or against a Solana chain, the endpoint of the other chain    *)
(* being unreachable, and calls either search any number of times.         *)
(***************************************************************************)
ChainsOf(up) == IF up = "evm" THEN EVMChains ELSE SolanaChains

InitSearch ==
    /\ InitProgram
    /\ \E up \in Chains : \E chain \in ChainsOf(up) :
          /\ chainLatest = [c \in Chains |-> IF c = up THEN chain.latest ELSE Null]
          /\ chainTime = [c \in Chains |-> IF c = up THEN chain.time ELSE EmptyCache]

NextSearch ==
    \/ \E timestamp \in Targets : CallGetEVMBlockByTimestamp(timestamp)
    \/ \E timestamp \in Targets : CallGetSolanaBlockByTimestamp(timestamp)
    \/ LatestFails
    \/ EVMLatestResolves
    \/ SolanaLatestResolves
    \/ GenesisResolves
    \/ SearchProbe
    \/ RefineSeed
    \/ RefineForward
    \/ RefineBackward
    \/ LookupThrew
    \/ CachedAttempt
    \/ FetchResolves
    \/ FetchNotFound
    \/ FetchFails
    \/ RetryDelayDone
    \/ ResolverSettled

SpecSearch == InitSearch /\ [][NextSearch]_vars

----------------------------------------------------------------------------
\* distance of the remote timestamp of index j from the target of the resolution
Distance(j) == Abs(RemoteTime(sf.chain, j) - sf.target)

\* the probes of the binary search made so far that are at minimal distance
\* among the probes, as positions in hist.probes
BestProbes ==
    {p \in DOMAIN hist.probes :
        \A q \in DOMAIN hist.probes : Distance(hist.probes[p]) <= Distance(hist.probes[q])}

FirstBestProbe == hist.probes[CHOOSE p \in BestProbes : \A q \in BestProbes : p <= q]

EVMReturned == sf.fn = "getEVMBlockByTimestamp" /\ sf.pc = "returned"

\* C1: over a non-decreasing chain 0..N with every lookup succeeding,
\* getEVMBlockByTimestamp returns an index of 0..N such that no index of 0..N is
\* strictly closer to the target, and among the probed indices at that minimal
\* distance it returns the one probed first.
EVMReturnsClosest ==
    EVMReturned =>
        /\ sf.value \in 0 .. chainLatest["evm"]
        /\ \A j \in 0 .. chainLatest["evm"] : Distance(sf.value) <= Distance(j)
        /\ sf.value = FirstBestProbe

\* a tie between two probed indices: the target lies midway between two blocks
EVMReturnsClosestWitness ==
    /\ EVMReturned
    /\ Cardinality({hist.probes[p] : p \in BestProbes}) >= 2
    /\ Distance(sf.value) > 0
    /\ Len(hist.probes) >= 2

\* C6 as claimed: a target below timestamp(0) resolves to index 0 and a target
\* above timestamp(latest) resolves to the latest index.
EVMBoundaryIndex ==
    EVMReturned =>
        /\ sf.target < RemoteTime("evm", 0) => sf.value = 0
        /\ sf.target > RemoteTime("evm", chainLatest["evm"]) => sf.value = chainLatest["evm"]

EVMOutside ==
    \/ sf.target < RemoteTime("evm", 0)
    \/ sf.target > RemoteTime("evm", chainLatest["evm"])

\* C6, first half of the amended claim: a resolution of getEVMBlockByTimestamp
\* throws only if a remote call of it failed, and for a target outside the
\* chain's timestamps it returns an index that carries the timestamp of the
\* nearer end of the chain: index 0 (the latest index) itself unless a neighbour
\* has the same timestamp.
EVMBoundaryResult ==
    /\ (sf.fn = "getEVMBlockByTimestamp" /\ sf.pc = "threw") => hist.worstRun >= 1
    /\ EVMReturned =>
        /\ sf.value \in 0 .. chainLatest["evm"]
        /\ sf.target < RemoteTime("evm", 0) =>
              /\ RemoteTime("evm", sf.value) = RemoteTime("evm", 0)
              /\ (chainLatest["evm"] = 0 \/ RemoteTime("evm", 1) > RemoteTime("evm", 0))
                    => sf.value = 0
        /\ sf.target > RemoteTime("evm", chainLatest["evm"]) =>
              /\ RemoteTime("evm", sf.value) = RemoteTime("evm", chainLatest["evm"])
              /\ (chainLatest["evm"] = 0 \/
                  RemoteTime("evm", chainLatest["evm"] - 1) < RemoteTime("evm", chainLatest["evm"]))
                    => sf.value = chainLatest["evm"]

\* C6, second half: every probe is inside the window and the window shrinks
\* with every probe, so the loop makes at most latest + 1 probes.
EVMWindowShrinks ==
    (sf.fn = "getEVMBlockByTimestamp" /\ sf.pc = "probe" /\ hist'.probes # hist.probes) =>
        /\ sf'.pc = "probe"
        /\ 0 <= sf.startIndex /\ sf.startIndex <= sf.middle
        /\ sf.middle <= sf.endIndex /\ sf.endIndex <= chainLatest["evm"]
        /\ sf'.endIndex - sf'.startIndex < sf.endIndex - sf.startIndex
        /\ sf'.endIndex - sf'.startIndex >= 0

\* C6 (amended): getEVMBlockByTimestamp terminates for every target and, for a
\* target outside the chain's timestamps, returns without error an index with
\* the boundary's timestamp (the boundary index itself where the chain is
\* strictly increasing).
EVMTerminatesAtBoundary == []EVMBoundaryResult /\ [][EVMWindowShrinks]_vars

EVMTerminatesAtBoundaryWitness ==
    /\ EVMReturned /\ EVMOutside
    /\ Len(hist.probes) >= 2
    /\ sf.value \notin {0, chainLatest["evm"]}

\* C8 as claimed: a resolution in which no remote call failed 3 times in a row
\* completes successfully.
TransientFailuresAbsorbed ==
    (sf.pc \in {"returned", "threw"} /\ hist.worstRun < DefaultRetries) => sf.pc = "returned"

PointCacheNext(chain) == IF chain = "evm" THEN blockTimestampCache' ELSE slotTimeCache'

\* C4 as claimed: the fetch function is executed at most once per key.
FetchExecutedOncePerKey ==
    \A chain \in Chains, key \in Keys : hist.fetchCalls[chain][key] <= 1

FetchSucceedsOncePerKey ==
    \A chain \in Chains, key \in Keys : hist.fetched[chain][key] <= 1

\* the steps of one getCachedData attempt
CachedLookupStep ==
    /\ (rf.pc = "loop" /\ rf'.pc = "fetch") =>
          rf.key \notin DOMAIN PointCache(rf.chain)
    /\ (rf.fn = "cached" /\ rf.pc = "loop" /\ rf'.pc = "returned") =>
          /\ rf.key \in DOMAIN PointCache(rf.chain)
          /\ rf'.value = PointCache(rf.chain)[rf.key]
          /\ hist'.fetchCalls = hist.fetchCalls
    /\ (rf.pc = "fetch" /\ rf'.pc = "returned") =>
          /\ rf.key \notin DOMAIN PointCache(rf.chain)
          /\ rf.key \in DOMAIN PointCacheNext(rf.chain)
          /\ PointCacheNext(rf.chain)[rf.key] = rf'.value
    /\ \A key \in DOMAIN PointCache("evm") :
          key \in DOMAIN PointCacheNext("evm")
          /\ PointCacheNext("evm")[key] = PointCache("evm")[key]

\* C4 (amended): over sequential lookups the fetch function completes
\* successfully at most once per key (an attempt that throws is retried, up to
\* 3 invocations per lookup), a key is fetched only while it is absent from the
\* cache, and a lookup of a cached key returns the cached value without
\* invoking the fetcher.
FetchOncePerCachedKey == []FetchSucceedsOncePerKey /\ [][CachedLookupStep]_vars

\* a second lookup of a key answered from the cache
FetchOncePerCachedKeyWitness ==
    /\ sf.fn = "getTimestampByBlockNumber" /\ sf.pc = "returned"
    /\ sf.target \in DOMAIN blockTimestampCache
    /\ hist.fetchCalls["evm"][sf.target] = 0
    /\ sf.value = blockTimestampCache[sf.target]

\* C3 as claimed: a refinement probe that fails with NotFound (a skipped slot,
\* a slot outside 0..latest) does not fail getSolanaBlockByTimestamp.
ProbeFailureNotFatal ==
    ~(/\ sf.fn = "getSolanaBlockByTimestamp" /\ sf.pc = "threw"
      /\ sf.at \in {"forward", "backward"}
      /\ sf.error.cause = "NoTimestamp")

SlotOutOfRange ==
    /\ sf.fn = "getTimestampBySlot" /\ sf.pc # "idle"
    /\ (sf.target < 0 \/ sf.target > chainLatest["solana"])

\* C5, in every state of a call with a slot out of range: no slot-time lookup
\* was started, and once getLatestSlot has answered the call has thrown the
\* OutOfRange error naming the slot and the latest slot
SlotRangeCheckedFirst ==
    SlotOutOfRange =>
        /\ sf.pc \in {"latest", "threw"}
        /\ rf.pc = "idle"
        /\ \A key \in Keys : hist.fetchCalls["solana"][key] = 0
        /\ (sf.pc = "threw" /\ hist.worstRun = 0) =>
              sf.error = OutOfRangeError(sf.target, chainLatest["solana"])

SlotCacheUnchanged == SlotOutOfRange => slotTimeCache' = slotTimeCache

\* C5: getTimestampBySlot(slot) with slot < 0 or slot > latestSlot throws the
\* OutOfRange error (naming slot and latest slot) before any slot-time lookup:
\* no getBlockTime request is made and slotTimeCache does not change.
SlotRangeCheck == []SlotRangeCheckedFirst /\ [][SlotCacheUnchanged]_vars

SlotRangeCheckWitness ==
    /\ SlotOutOfRange /\ sf.pc = "threw"
    /\ sf.target > chainLatest["solana"]
    /\ sf.error.kind = "OutOfRange"
    /\ DOMAIN slotTimeCache # {}

Refining == sf.fn = "getSolanaBlockByTimestamp" /\ sf.offset >= 1

\* C7, the result: the refiner returns an index no farther from the target
\* than the seed it was given
RefinedNoWorse ==
    (Refining /\ sf.pc = "returned") =>
        /\ sf.value = sf.closestIndex
        /\ Distance(sf.value) = sf.closestTimeDifference
        /\ Distance(sf.value) <= Distance(sf.initialSlot)

\* C7, the steps: the best difference never grows while the refiner runs
BestDifferenceShrinks ==
    (Refining /\ sf'.fn = sf.fn /\ sf'.pc # "idle") =>
        sf'.closestTimeDifference <= sf.closestTimeDifference

\* C7: with its probes succeeding the Solana refiner returns an index whose
\* distance from the target is at most the seed's, and the best difference it
\* tracks never increases from one probe to the next.
RefinerImprovesOrPreserves == []RefinedNoWorse /\ [][BestDifferenceShrinks]_vars

\* the refiner found a slot strictly closer than the binary search's seed
RefinerImprovesOrPreservesWitness ==
    /\ Refining /\ sf.pc = "returned"
    /\ Distance(sf.value) < Distance(sf.initialSlot)

BatchResponded == req.pc = "responded" /\ req.timestamps # <<>>

\* C10, the response to a timestamps request
BatchResponse ==
    BatchResponded =>
        /\ req.status = 200
        /\ DOMAIN req.results = {req.timestamps[i] : i \in DOMAIN req.timestamps}
        /\ \A timestamp \in DOMAIN req.results :
              req.results[timestamp] = Null \/ req.results[timestamp] \in Nat

\* C10, the step that handles the failure of one item: that item becomes null,
\* the results of the other items stay, and the loop goes on to the next item
ItemFailureStep ==
    (req.pc = "await" /\ req.timestamps # <<>> /\ sf.pc = "threw" /\ req' # req) =>
        /\ req'.results[req.timestamps[req.i]] = Null
        /\ \A timestamp \in DOMAIN req.results \ {req.timestamps[req.i]} :
              req'.results[timestamp] = req.results[timestamp]
        /\ req'.i > req.i
        /\ req'.status # 500
        /\ \/ req'.pc = "await" /\ sf'.pc = "latest"
           \/ req'.pc = "responded" /\ req'.i = Len(req.timestamps) + 1

\* C10: in a timestamps request a failure while resolving one timestamp makes
\* that item null and nothing else: the remaining items are still resolved, the
\* response has a key for every timestamp given, each an index or null, and the
\* request returns success.
BatchItemFailureIsolated == []BatchResponse /\ [][ItemFailureStep]_vars

\* the first of two items failed and the second was resolved after it
BatchItemFailureIsolatedWitness ==
    /\ BatchResponded /\ Len(req.timestamps) = 2
    /\ req.timestamps[1] # req.timestamps[2]
    /\ req.results[req.timestamps[1]] = Null
    /\ req.results[req.timestamps[2]] \in Nat
    /\ req.status = 200

----------------------------------------------------------------------------
\* C2: an operation that fails k times and then succeeds makes retry(op, n, d)
\* succeed after exactly k+1 calls of op if and only if k < n; for k >= n retry
\* fails after exactly n calls of op.
RetryCallCount ==
    (rf.fn = "mock" /\ rf.pc \in {"returned", "threw"}) =>
        /\ (rf.pc = "returned") <=> (mock.fails < rf.retries)
        /\ rf.pc = "returned" => mock.calls = mock.fails + 1
        /\ rf.pc = "threw" => mock.calls = rf.retries

RetryCallCountWitness ==
    /\ rf.fn = "mock" /\ rf.pc = "returned"
    /\ mock.fails = 2 /\ mock.calls = 3 /\ rf.retries = 3

\* C9: when every attempt fails, retry throws 'Max retries reached: <error>' where
\* <error> is the description of the error of the last attempt.
RetryWrapsLastError ==
    (rf.fn = "mock" /\ rf.pc = "threw" /\ rf.retries >= 1) =>
        rf.error = [kind |-> "MaxRetries", cause |-> "Mock", a |-> rf.retries, b |-> 0]

RetryWrapsLastErrorWitness ==
    /\ rf.fn = "mock" /\ rf.pc = "threw"
    /\ rf.retries = 2 /\ mock.calls = 2
    /\ rf.error.kind = "MaxRetries" /\ rf.error.a = 2

----------------------------------------------------------------------------
\* every entry of a point cache is still there, with its value, after the step
PointCacheKept(chain) ==
    \A key \in DOMAIN PointCache(chain) :
        /\ key \in DOMAIN PointCacheNext(chain)
        /\ PointCacheNext(chain)[key] = PointCache(chain)[key]

PointCacheAppendOnlyStep == \A chain \in Chains : PointCacheKept(chain)

\* C11: with the remote timestamp of an index fixed, the point caches are
\* append-only under every interleaving of lookups: a key that is present with
\* a value stays present with that value, and no key is ever removed.
PointCacheAppendOnly == [][PointCacheAppendOnlyStep]_vars

\* two lookups have filled two keys of one cache
PointCacheAppendOnlyWitness ==
    /\ DOMAIN blockTimestampCache = 0 .. MaxKey
    /\ hist.lookups >= 2
    /\ rf.pc = "returned" /\ rf.fetches >= 1
    /\ parked.pc = "returned" /\ parked.fetches >= 1
    /\ rf.key # parked.key

SameKeyReturned ==
    /\ rf.fn = "cached" /\ rf.pc = "returned"
    /\ parked.fn = "cached" /\ parked.pc = "returned"
    /\ rf.chain = parked.chain /\ rf.key = parked.key

\* C12: when two concurrent getCachedData calls for one key both succeed, they
\* return the same value and the cache holds exactly that value for the key.
\* (That both may invoke the remote fetch is the witness below.)
ConcurrentLookupsAgree ==
    SameKeyReturned =>
        /\ rf.value = parked.value
        /\ rf.key \in DOMAIN PointCache(rf.chain)
        /\ PointCache(rf.chain)[rf.key] = rf.value

\* the interleaving without deduplication: both calls found the key absent, both
\* invoked the remote fetch on their first attempt, both fetches succeeded
ConcurrentLookupsAgreeWitness ==
    /\ SameKeyReturned
    /\ rf.attempt = 0 /\ rf.fetches = 1
    /\ parked.attempt = 0 /\ parked.fetches = 1
    /\ hist.fetchCalls[rf.chain][rf.key] = 2
    /\ hist.fetched[rf.chain][rf.key] = 2

\* a step of the call in rf itself (not the event loop turning to the other call)
\* that starts a later attempt while the key is in the cache
RetriedAttemptFindsKey ==
    /\ rf.fn = "cached" /\ rf.pc = "loop" /\ rf.attempt >= 1
    /\ rf.key \in DOMAIN PointCache(rf.chain)
    /\ rf' # rf /\ parked' = parked

RecheckStep ==
    RetriedAttemptFindsKey =>
        /\ rf'.pc = "returned"
        /\ rf'.value = PointCache(rf.chain)[rf.key]
        /\ rf'.fetches = rf.fetches
        /\ hist'.fetchCalls = hist.fetchCalls

\* C18: the cache check is part of the retried operation: an attempt after a
\* failed one that finds the key in the cache (a concurrent lookup stored it
\* meanwhile) returns the cached value without invoking the fetcher again.
CacheRecheckedEveryAttempt == [][RecheckStep]_vars

\* a call whose first attempt fetched and failed and whose second attempt was
\* answered from the cache, the other call having stored the key in between
CacheRecheckedEveryAttemptWitness ==
    /\ rf.fn = "cached" /\ rf.pc = "returned"
    /\ rf.attempt = 1 /\ rf.fetches = 1
    /\ parked.fn = "cached" /\ parked.pc = "returned" /\ parked.fetches = 1
    /\ parked.chain = rf.chain /\ parked.key = rf.key
    /\ hist.fetched[rf.chain][rf.key] = 1

----------------------------------------------------------------------------
\* the order in which the refiner looks at the slots around its seed: the seed,
\* then for offset 1, 2, ... the slot ahead and the slot behind
ProbeRank(slot) ==
    IF slot = sf.initialSlot THEN 0
    ELSE IF slot > sf.initialSlot THEN 2 * (slot - sf.initialSlot) - 1
    ELSE 2 * (sf.initialSlot - slot)

\* the slots looked at up to the end of an offset
ProbedThrough(offset) == (sf.initialSlot - offset) .. (sf.initialSlot + offset)

\* the minimal-difference slot among them, the earliest looked at on a tie
BestThrough(offset) ==
    CHOOSE slot \in ProbedThrough(offset) :
        \A other \in ProbedThrough(offset) :
            \/ Distance(slot) < Distance(other)
            \/ Distance(slot) = Distance(other) /\ ProbeRank(slot) <= ProbeRank(other)

\* the offsets the refiner has completed when it returns (the loop variable is
\* MAX_SEARCH_OFFSET + 1 after the last iteration)
OffsetsDone == IF sf.offset > MAX_SEARCH_OFFSET THEN MAX_SEARCH_OFFSET ELSE sf.offset

\* C13, while the refiner probes: the offset is in 1..100 and the slot looked up
\* is the one ahead (behind) of the seed by the offset
RefineProbesInWindow ==
    (sf.fn = "getSolanaBlockByTimestamp" /\ sf.pc \in {"forward", "backward"}) =>
        /\ sf.offset \in 1 .. MAX_SEARCH_OFFSET
        /\ rf.key = IF sf.pc = "forward" THEN sf.initialSlot + sf.offset
                    ELSE sf.initialSlot - sf.offset

\* C13, when the refiner returns: the result is the minimal-difference slot of
\* the offsets done (earliest on a tie), no offset before the last one ended
\* with a difference within the threshold, and the refiner stopped before
\* offset 100 only because the threshold was reached
RefineResult ==
    (Refining /\ sf.pc = "returned") =>
        /\ sf.value = BestThrough(OffsetsDone)
        /\ \A slot \in ProbedThrough(OffsetsDone - 1) :
              Distance(slot) > TIME_DIFFERENCE_THRESHOLD
        /\ \/ Distance(sf.value) <= TIME_DIFFERENCE_THRESHOLD
           \/ sf.offset = MAX_SEARCH_OFFSET + 1

\* C13, the order of the probes: after the seed offset 1 ahead, after a probe
\* ahead the probe behind at the same offset, after a probe behind either the
\* return (threshold reached or offset 100 done) or the next offset ahead
RefineOrderStep ==
    /\ (sf.pc = "seed" /\ sf'.pc # "seed") =>
          /\ sf'.pc = "forward" /\ sf'.offset = 1
          /\ rf'.key = sf.initialSlot + 1
          /\ sf'.closestIndex = sf.initialSlot
    /\ (sf.pc = "forward" /\ sf'.pc # "forward") =>
          /\ sf'.pc = "backward" /\ sf'.offset = sf.offset
          /\ rf'.key = sf.initialSlot - sf.offset
    /\ (sf.pc = "backward" /\ sf'.pc # "backward") =>
          IF sf'.closestTimeDifference <= TIME_DIFFERENCE_THRESHOLD
          THEN sf'.pc = "returned" /\ sf'.offset = sf.offset
          ELSE IF sf.offset = MAX_SEARCH_OFFSET
          THEN sf'.pc = "returned"
          ELSE /\ sf'.pc = "forward" /\ sf'.offset = sf.offset + 1
               /\ rf'.key = sf.initialSlot + sf.offset + 1

\* C13: with every probe succeeding the refiner probes offsets 1, 2, ... in
\* order, ahead before behind, keeps the minimal-difference slot (the earliest
\* found on a tie), probes no offset after the first one that ends with the best
\* difference <= 60, never probes an offset above 100, and returns the best
\* found when 100 offsets end without the threshold reached.
RefinerWalksWindow ==
    []RefineProbesInWindow /\ []RefineResult /\ [][RefineOrderStep]_vars

\* all 100 offsets done without the threshold reached, and a slot better than
\* the seed found on the way
RefinerWalksWindowWitness ==
    /\ Refining /\ sf.pc = "returned"
    /\ sf.offset = MAX_SEARCH_OFFSET + 1
    /\ sf.closestTimeDifference > TIME_DIFFERENCE_THRESHOLD
    /\ sf.value # sf.initialSlot
    /\ sf.initialSlot - MAX_SEARCH_OFFSET \in DOMAIN slotTimeCache
    /\ sf.initialSlot + MAX_SEARCH_OFFSET \in DOMAIN slotTimeCache

----------------------------------------------------------------------------
Min(a, b) == IF a <= b THEN a ELSE b

RetryOver == rf.fn = "mock" /\ rf.pc \in {"returned", "threw"}

\* C14, the count: while retry runs one delay has been waited per failed attempt
\* so far that was followed by another attempt; when it is over the delays are
\* min(k, n - 1), each of delayMs
RetryDelayCount ==
    /\ (rf.fn = "mock" /\ rf.pc = "loop") =>
          hist.delays = rf.attempt /\ mock.calls = rf.attempt
    /\ (rf.fn = "mock" /\ rf.pc = "delay") =>
          hist.delays = rf.attempt /\ mock.calls = rf.attempt + 1
    /\ (RetryOver /\ rf.retries >= 1) =>
          /\ hist.delays = Min(mock.fails, rf.retries - 1)
          /\ hist.elapsed = hist.delays * rf.delayMs
          /\ rf.pc = "returned" => hist.delays = mock.calls - 1

\* C14, the steps: a delay is waited only after a failed attempt that another
\* attempt follows, and once retry has returned or thrown it neither calls the
\* operation nor waits again
RetryDelayStep ==
    /\ (rf.fn = "mock" /\ rf'.pc = "delay" /\ rf.pc # "delay") =>
          /\ mock.calls < mock.fails
          /\ rf.attempt + 1 < rf.retries
    /\ (rf.fn = "mock" /\ rf'.pc = "returned" /\ rf.pc # "returned") =>
          /\ mock.calls = mock.fails
          /\ hist'.delays = hist.delays
    /\ (rf.fn = "mock" /\ rf'.pc = "threw" /\ rf.pc # "threw") =>
          hist'.delays = hist.delays
    /\ (RetryOver /\ rf' # rf) =>
          rf' = IdleRetry /\ mock'.calls = 0 /\ hist'.delays = 0

\* C14: retry returns on its first successful attempt without another attempt
\* or delay; it waits delayMs once after each failed attempt that another
\* attempt follows and not after the final failed attempt: min(k, n-1) delays
\* for an operation failing k times under n >= 1 attempts.
RetryDelays == []RetryDelayCount /\ [][RetryDelayStep]_vars

\* every attempt failed: two delays for three attempts
RetryDelaysWitness ==
    /\ rf.fn = "mock" /\ rf.pc = "threw"
    /\ rf.retries = 3 /\ mock.fails = 3 /\ mock.calls = 3
    /\ hist.delays = 2 /\ hist.elapsed = 2 * rf.delayMs

----------------------------------------------------------------------------
EVMProbeAborted ==
    sf.fn = "getEVMBlockByTimestamp" /\ sf.pc = "threw" /\ sf.at = "probe"

\* C15, the state after the abort: the resolution ended with retry's error, the
\* key whose lookup failed is not in the cache, the keys probed before it are
SearchAbortedByLookup ==
    EVMProbeAborted =>
        /\ sf.error.kind = "MaxRetries"
        /\ sf.error.cause \in {"Network", "NoData"}
        /\ hist.worstRun >= DefaultRetries
        /\ hist.probes[Len(hist.probes)] = sf.middle
        /\ sf.middle \notin DOMAIN blockTimestampCache
        /\ \A p \in 1 .. Len(hist.probes) - 1 :
              /\ hist.probes[p] \in DOMAIN blockTimestampCache
              /\ blockTimestampCache[hist.probes[p]] = RemoteTime("evm", hist.probes[p])

\* C15, the steps: retry throws after the third failed attempt of the lookup,
\* and the binary search awaiting the lookup throws that same error; neither
\* step touches the cache
LookupFailurePropagates ==
    /\ (rf.fn = "cached" /\ rf.pc # "threw" /\ rf'.pc = "threw") =>
          /\ rf.attempt = DefaultRetries - 1 /\ rf.fetches = DefaultRetries
          /\ rf'.error.kind = "MaxRetries"
          /\ blockTimestampCache' = blockTimestampCache
    /\ (sf.fn = "getEVMBlockByTimestamp" /\ sf.pc = "probe" /\ rf.pc = "threw"
        /\ sf' # sf) =>
          /\ sf'.pc = "threw"
          /\ sf'.error = rf.error
          /\ blockTimestampCache' = blockTimestampCache

\* C15: when every attempt of a point lookup fails, retry's 'Max retries
\* reached' error passes through getCachedData and the binary search and ends
\* that resolution with the error; the failed key gets no cache entry and the
\* entries of the resolution's earlier probes stay.
LookupFailureAbortsSearch == []SearchAbortedByLookup /\ [][LookupFailurePropagates]_vars

\* the second probe of a search failed three times, the first probe is cached
LookupFailureAbortsSearchWitness ==
    /\ EVMProbeAborted
    /\ Len(hist.probes) >= 2
    /\ hist.probes[1] \in DOMAIN blockTimestampCache
    /\ sf.error.kind = "MaxRetries" /\ sf.error.cause = "Network"

----------------------------------------------------------------------------
\* a getSolanaBlockByTimestamp call, past getLatestSlot, whose target is not
\* after the block time of slot 0
AtGenesis ==
    /\ sf.fn = "getSolanaBlockByTimestamp"
    /\ sf.pc \notin {"idle", "latest"}
    /\ sf.target <= RemoteTime("solana", 0)

\* C16: getSolanaBlockByTimestamp with target <= timestamp(slot 0) returns 0
\* right after the lookup of slot 0: slot 0 is the only slot looked up, the
\* binary search makes no probe and the refiner is not entered.
GenesisShortcut ==
    AtGenesis =>
        /\ sf.pc \in {"genesis", "returned", "threw"}
        /\ sf.pc = "returned" => sf.value = 0
        /\ sf.pc = "threw" => sf.at \in {"latest", "genesis"}
        /\ rf.pc # "idle" => rf.key = 0
        /\ \A key \in Keys \ {0} : hist.fetchCalls["solana"][key] = 0
        /\ hist.probes = <<>>
        /\ sf.offset = 0 /\ sf.startIndex = 0 /\ sf.endIndex = 0

\* slot 0 returned although a later slot is closer to the target: no search ran
GenesisShortcutWitness ==
    /\ AtGenesis /\ sf.pc = "returned" /\ sf.value = 0
    /\ chainLatest["solana"] >= 1
    /\ \E slot \in 1 .. chainLatest["solana"] :
          /\ RemoteTime("solana", slot) # Null
          /\ Distance(slot) < Distance(0)

----------------------------------------------------------------------------
SearchFunctions == {"getEVMBlockByTimestamp", "getSolanaBlockByTimestamp"}

\* the while loop of a search was left by its condition, not by an exact hit:
\* the EVM search returned an index whose timestamp is not the target, the
\* Solana search went on to the refiner
LoopExited ==
    \/ /\ sf.fn = "getEVMBlockByTimestamp" /\ sf.pc = "returned"
       /\ RemoteTime("evm", sf.value) # sf.target
    \/ /\ sf.fn = "getSolanaBlockByTimestamp"
       /\ \/ sf.pc \in {"seed", "forward", "backward"}
          \/ sf.pc = "threw" /\ sf.at \in {"seed", "forward", "backward"}
          \/ sf.pc = "returned" /\ sf.offset >= 1

\* the search awaits the lookup of its middle index, or that lookup has thrown
AtProbe ==
    /\ sf.fn \in SearchFunctions
    /\ sf.pc = "probe" \/ (sf.pc = "threw" /\ sf.at = "probe")

\* C17: in the binary search of either chain every probed index satisfies
\* 0 <= start <= mid <= end <= latest, start <= end + 1 holds in every state,
\* and when the loop ends without an exact hit start = end + 1.
SearchWindowInvariant ==
    /\ sf.startIndex <= sf.endIndex + 1
    /\ AtProbe =>
          /\ 0 <= sf.startIndex /\ sf.startIndex <= sf.middle
          /\ sf.middle <= sf.endIndex /\ sf.endIndex <= chainLatest[sf.chain]
          /\ sf.middle = hist.probes[Len(hist.probes)]
          /\ rf.pc # "idle" => rf.key = sf.middle
    /\ \A p \in DOMAIN hist.probes : hist.probes[p] \in 0 .. chainLatest[sf.chain]
    /\ LoopExited => sf.startIndex = sf.endIndex + 1

\* the Solana search left its loop after two probes and entered the refiner
SearchWindowInvariantWitness ==
    /\ sf.fn = "getSolanaBlockByTimestamp" /\ sf.pc = "seed"
    /\ Len(hist.probes) >= 2
    /\ sf.startIndex = sf.endIndex + 1 /\ sf.startIndex >= 1

----------------------------------------------------------------------------
InRefiner == sf.fn = "getSolanaBlockByTimestamp" /\ sf.pc \in {"seed", "forward", "backward"}

\* C19, the steps of the refiner: after the lookup of the seed it probes seed+1
\* whatever the seed's difference, after the probe ahead it probes behind, and a
\* probe that threw ends the resolution with that error
RefinerProbesBeforeThreshold ==
    /\ (InRefiner /\ sf.pc = "seed" /\ rf.pc = "returned" /\ sf' # sf) =>
          /\ sf'.pc = "forward" /\ sf'.offset = 1
          /\ rf'.pc = "loop" /\ rf'.key = sf.initialSlot + 1
    /\ (InRefiner /\ sf.pc = "forward" /\ rf.pc = "returned" /\ sf' # sf) =>
          /\ sf'.pc = "backward" /\ sf'.offset = sf.offset
          /\ rf'.pc = "loop" /\ rf'.key = sf.initialSlot - sf.offset
    /\ (InRefiner /\ rf.pc = "threw" /\ sf' # sf) =>
          sf'.pc = "threw" /\ sf'.error = rf.error

\* C19, the result: a resolution that went through the refiner returns only
\* after seed+1 and seed-1 were both looked up with success, so never from a
\* seed of 0 or of the latest slot
RefinedAfterBothProbes ==
    (Refining /\ sf.pc = "returned") =>
        /\ sf.initialSlot + 1 \in DOMAIN slotTimeCache
        /\ sf.initialSlot - 1 \in DOMAIN slotTimeCache
        /\ sf.initialSlot \in 1 .. chainLatest["solana"] - 1

\* C19: the refiner tests the 60-second threshold only after both probes of an
\* offset: whenever the Solana binary search ends without an exact hit it
\* probes seed+1 and seed-1 even with the seed within 60 s of the target (slot
\* -1 for seed 0, slot latest+1 for the latest seed), and the failure of either
\* probe fails the resolution.
ThresholdAfterBothProbes ==
    []RefinedAfterBothProbes /\ [][RefinerProbesBeforeThreshold]_vars

\* seed 0 within the threshold, slot 1 probed, then the probe of slot -1 failed
ThresholdAfterBothProbesWitness ==
    /\ sf.fn = "getSolanaBlockByTimestamp" /\ sf.pc = "threw" /\ sf.at = "backward"
    /\ sf.initialSlot = 0 /\ sf.offset = 1
    /\ Distance(0) <= TIME_DIFFERENCE_THRESHOLD
    /\ 1 \in DOMAIN slotTimeCache
    /\ sf.error.kind = "MaxRetries" /\ sf.error.cause = "NoTimestamp" /\ sf.error.a = -1

----------------------------------------------------------------------------
\* the handler's cache holds a non-zero index for the timestamp on the chain
NonZeroEntry(resultCache, chain, timestamp) ==
    /\ timestamp \in DOMAIN resultCache[chain]
    /\ resultCache[chain][timestamp] # 0

\* the position at which the for loop of a timestamps request goes on in this step
LoopFrom == IF req.pc = "idle" THEN 1 ELSE req.i + 1

\* C20, the reads: in a step of the for loop every item passed over without a
\* resolver call has a non-zero entry, which is its result, and the item the
\* handler stops at (the resolver called for it) has no entry or the entry 0
ResultCacheServes ==
    (req' # req /\ req'.timestamps # <<>> /\ req'.pc \in {"await", "responded"}) =>
        /\ \A p \in LoopFrom .. req'.i - 1 :
              /\ NonZeroEntry(cache', req'.chain, req'.timestamps[p])
              /\ req'.results[req'.timestamps[p]] = cache'[req'.chain][req'.timestamps[p]]
        /\ req'.pc = "await" =>
              /\ ~NonZeroEntry(cache', req'.chain, req'.timestamps[req'.i])
              /\ sf'.pc = "latest"
              /\ sf'.target = Number(req'.timestamps[req'.i])
        /\ req'.pc = "responded" => req'.i = Len(req'.timestamps) + 1 /\ sf'.pc = "idle"

\* C20, the writes: an entry is written only when the resolver called for an
\* item of that chain returned, with the index returned (0 included); a thrown
\* resolution writes nothing; a non-zero entry is never written again
ResultCacheWrites ==
    /\ cache' # cache =>
          /\ req.pc = "await" /\ req.timestamps # <<>> /\ sf.pc = "returned"
          /\ sf.chain = req.chain
          /\ ~NonZeroEntry(cache, req.chain, req.timestamps[req.i])
          /\ cache' = [cache EXCEPT ![req.chain] = (req.timestamps[req.i] :> sf.value) @@ @]
    /\ (req.pc = "await" /\ req.timestamps # <<>> /\ sf.pc = "returned" /\ req' # req) =>
          /\ req.timestamps[req.i] \in DOMAIN cache'[req.chain]
          /\ cache'[req.chain][req.timestamps[req.i]] = sf.value
    /\ (req.pc = "await" /\ sf.pc = "threw") => cache' = cache

\* C20: the handler serves a timestamp from its per-chain cache, without
\* calling the resolver, exactly when an earlier resolution of that timestamp
\* on that chain returned a non-zero index; a timestamp that resolved to 0 or
\* whose resolution failed is resolved again by every later request.
ResultCacheNonZeroOnly == [][ResultCacheServes /\ ResultCacheWrites]_vars

\* one request: the first item served from the cache, the second, cached as
\* index 0, handed to the resolver again
ResultCacheNonZeroOnlyWitness ==
    /\ req.pc = "await" /\ Len(req.timestamps) = 2 /\ req.i = 2
    /\ sf.pc = "latest"
    /\ NonZeroEntry(cache, req.chain, req.timestamps[1])
    /\ req.results[req.timestamps[1]] = cache[req.chain][req.timestamps[1]]
    /\ req.timestamps[2] \in DOMAIN cache[req.chain]
    /\ cache[req.chain][req.timestamps[2]] = 0

====
